---- MODULE Spec2Model ----
(***************************************************************************)
(* Model of the video compressor service: the threaded TCP server          *)
(* (server.py: start_server, handle_client, send_response, send_progress,  *)
(* process_request, recv_all) and the client's response parser             *)
(* (client.py: send_request, receive_response).                            *)
(*                                                                         *)
(* Bytes are integers 0..255 and byte strings are sequences of them, so    *)
(* that what the server writes and what the client parses are the real     *)
(* octets of the protocol.                                                 *)
(***************************************************************************)
EXTENDS Integers, Sequences, FiniteSets, TLC

(***************************************************************************)
(* Bounds of the model                                                     *)
(***************************************************************************)
\* number of client connections that arrive during one run
MaxConns == 2
\* number of heartbeat lines one heartbeat thread gets to deliver
MaxBeats == 1
\* largest length recv_all is called with when it is followed call by call
MaxLength == 3
\* bytes the client reads from the file for one sendall: STREAM_RATE (1400)
\* scaled to the files of the model
ChunkSize == 4
\* the byte values of the streams recv_all is followed on
StreamBytes == {1, 2}

(***************************************************************************)
(* Program constants                                                       *)
(***************************************************************************)
HEADER_SIZE == 8
MAX_JSON_SIZE == 216
MAX_MEDIA_TYPE_SIZE == 4
\* 1 << 40, as big-endian base-256 digits (it does not fit a 32-bit integer)
MAX_PAYLOAD_SIZE == <<1, 0, 0, 0, 0, 0>>

(***************************************************************************)
(* Byte strings of the program (ASCII / UTF-8 octets)                      *)
(***************************************************************************)
\* 'FINAL:\n'
FINAL_MARKER ==
  <<70, 73, 78, 65, 76, 58, 10>>

\* 'PROGRESS: ' + 5 three-byte UTF-8 characters + '...' + newline (29 bytes)
PROGRESS_LINE ==
  <<80, 82, 79, 71, 82, 69, 83, 83, 58, 32, 228, 189, 156, 230, 165, 173,
    228, 184, 173, 227, 129, 167, 227, 129, 153, 46, 46, 46, 10>>

\* '{"status": "'
JsonOpenStatus ==
  <<123, 34, 115, 116, 97, 116, 117, 115, 34, 58, 32, 34>>

\* '", "message": "'
JsonMidMessage ==
  <<34, 44, 32, 34, 109, 101, 115, 115, 97, 103, 101, 34, 58, 32, 34>>

\* '"}'
JsonClose ==
  <<34, 125>>

\* 'success'
StatusSuccess ==
  <<115, 117, 99, 99, 101, 115, 115>>

\* 'error'
StatusError ==
  <<101, 114, 114, 111, 114>>

\* 'Only one processing per IP is allowed.'
MsgOnlyOne ==
  <<79, 110, 108, 121, 32, 111, 110, 101, 32, 112, 114, 111, 99, 101, 115,
    115, 105, 110, 103, 32, 112, 101, 114, 32, 73, 80, 32, 105, 115, 32,
    97, 108, 108, 111, 119, 101, 100, 46>>

\* 'Processing completed.'
MsgCompleted ==
  <<80, 114, 111, 99, 101, 115, 115, 105, 110, 103, 32, 99, 111, 109, 112,
    108, 101, 116, 101, 100, 46>>

\* 'Expected {length} bytes but received {len(data)} bytes before the connection closed.'
MsgEOF ==
  <<69, 120, 112, 101, 99, 116, 101, 100, 32, 123, 108, 101, 110, 103, 116,
    104, 125, 32, 98, 121, 116, 101, 115, 32, 98, 117, 116, 32, 114, 101,
    99, 101, 105, 118, 101, 100, 32, 123, 108, 101, 110, 40, 100, 97, 116,
    97, 41, 125, 32, 98, 121, 116, 101, 115, 32, 98, 101, 102, 111, 114,
    101, 32, 116, 104, 101, 32, 99, 111, 110, 110, 101, 99, 116, 105, 111,
    110, 32, 99, 108, 111, 115, 101, 100, 46>>

\* 'Width and height must be specified for resolution change.'
MsgWidthHeight ==
  <<87, 105, 100, 116, 104, 32, 97, 110, 100, 32, 104, 101, 105, 103, 104,
    116, 32, 109, 117, 115, 116, 32, 98, 101, 32, 115, 112, 101, 99, 105,
    102, 105, 101, 100, 32, 102, 111, 114, 32, 114, 101, 115, 111, 108,
    117, 116, 105, 111, 110, 32, 99, 104, 97, 110, 103, 101, 46>>

\* 'Aspect ratio must be specified.'
MsgAspect ==
  <<65, 115, 112, 101, 99, 116, 32, 114, 97, 116, 105, 111, 32, 109, 117,
    115, 116, 32, 98, 101, 32, 115, 112, 101, 99, 105, 102, 105, 101, 100,
    46>>

\* 'Start time and duration must be specified.'
MsgGif ==
  <<83, 116, 97, 114, 116, 32, 116, 105, 109, 101, 32, 97, 110, 100, 32,
    100, 117, 114, 97, 116, 105, 111, 110, 32, 109, 117, 115, 116, 32, 98,
    101, 32, 115, 112, 101, 99, 105, 102, 105, 101, 100, 46>>

\* 'Start time and duration must be specified for WEBM creation.'
MsgWebm ==
  <<83, 116, 97, 114, 116, 32, 116, 105, 109, 101, 32, 97, 110, 100, 32,
    100, 117, 114, 97, 116, 105, 111, 110, 32, 109, 117, 115, 116, 32, 98,
    101, 32, 115, 112, 101, 99, 105, 102, 105, 101, 100, 32, 102, 111, 114,
    32, 87, 69, 66, 77, 32, 99, 114, 101, 97, 116, 105, 111, 110, 46>>

\* 'Unsupported operation.'
MsgUnsupported ==
  <<85, 110, 115, 117, 112, 112, 111, 114, 116, 101, 100, 32, 111, 112,
    101, 114, 97, 116, 105, 111, 110, 46>>

\* 'ffmpeg error (see stderr output for detail)'
MsgFfmpeg ==
  <<102, 102, 109, 112, 101, 103, 32, 101, 114, 114, 111, 114, 32, 40, 115,
    101, 101, 32, 115, 116, 100, 101, 114, 114, 32, 111, 117, 116, 112,
    117, 116, 32, 102, 111, 114, 32, 100, 101, 116, 97, 105, 108, 41>>

\* "'ValueError' object is not subscriptable"
MsgNotSubscriptable ==
  <<39, 86, 97, 108, 117, 101, 69, 114, 114, 111, 114, 39, 32, 111, 98,
    106, 101, 99, 116, 32, 105, 115, 32, 110, 111, 116, 32, 115, 117, 98,
    115, 99, 114, 105, 112, 116, 97, 98, 108, 101>>

\* "'list' object has no attribute 'get'"
MsgNoGet ==
  <<39, 108, 105, 115, 116, 39, 32, 111, 98, 106, 101, 99, 116, 32, 104,
    97, 115, 32, 110, 111, 32, 97, 116, 116, 114, 105, 98, 117, 116, 101,
    32, 39, 103, 101, 116, 39>>

\* 'Expecting value: line 1 column 1 (char 0)'
MsgJsonEmpty ==
  <<69, 120, 112, 101, 99, 116, 105, 110, 103, 32, 118, 97, 108, 117, 101,
    58, 32, 108, 105, 110, 101, 32, 49, 32, 99, 111, 108, 117, 109, 110,
    32, 49, 32, 40, 99, 104, 97, 114, 32, 48, 41>>

\* "Expecting ':' delimiter: line 1 column 13 (char 12)"
MsgJsonDelim ==
  <<69, 120, 112, 101, 99, 116, 105, 110, 103, 32, 39, 58, 39, 32, 100,
    101, 108, 105, 109, 105, 116, 101, 114, 58, 32, 108, 105, 110, 101, 32,
    49, 32, 99, 111, 108, 117, 109, 110, 32, 49, 51, 32, 40, 99, 104, 97,
    114, 32, 49, 50, 41>>

\* "[Errno 2] No such file or directory: '"
MsgErrno2 ==
  <<91, 69, 114, 114, 110, 111, 32, 50, 93, 32, 78, 111, 32, 115, 117, 99,
    104, 32, 102, 105, 108, 101, 32, 111, 114, 32, 100, 105, 114, 101, 99,
    116, 111, 114, 121, 58, 32, 39>>

\* 'uploads/input_'
UploadPrefix ==
  <<117, 112, 108, 111, 97, 100, 115, 47, 105, 110, 112, 117, 116, 95>>

\* '00000000-0000-4000-8000-000000000000'
Uuid ==
  <<48, 48, 48, 48, 48, 48, 48, 48, 45, 48, 48, 48, 48, 45, 52, 48, 48, 48,
    45, 56, 48, 48, 48, 45, 48, 48, 48, 48, 48, 48, 48, 48, 48, 48, 48, 48>>

\* 'mp4'
Mp4 ==
  <<109, 112, 52>>

\* 'mp3'
Mp3 ==
  <<109, 112, 51>>

\* 'gif'
Gif ==
  <<103, 105, 102>>

\* 'webm'
Webm ==
  <<119, 101, 98, 109>>

\* '{"operation": "compress"}'
ReqCompress ==
  <<123, 34, 111, 112, 101, 114, 97, 116, 105, 111, 110, 34, 58, 32, 34,
    99, 111, 109, 112, 114, 101, 115, 115, 34, 125>>

\* '{"operation": "change_resolution", "width": 640, "height": 480}'
ReqResolution ==
  <<123, 34, 111, 112, 101, 114, 97, 116, 105, 111, 110, 34, 58, 32, 34,
    99, 104, 97, 110, 103, 101, 95, 114, 101, 115, 111, 108, 117, 116, 105,
    111, 110, 34, 44, 32, 34, 119, 105, 100, 116, 104, 34, 58, 32, 54, 52,
    48, 44, 32, 34, 104, 101, 105, 103, 104, 116, 34, 58, 32, 52, 56, 48,
    125>>

\* '{"operation": "change_resolution", "width": 640}'
ReqResolutionNoHeight ==
  <<123, 34, 111, 112, 101, 114, 97, 116, 105, 111, 110, 34, 58, 32, 34,
    99, 104, 97, 110, 103, 101, 95, 114, 101, 115, 111, 108, 117, 116, 105,
    111, 110, 34, 44, 32, 34, 119, 105, 100, 116, 104, 34, 58, 32, 54, 52,
    48, 125>>

\* '{"operation": "change_aspect_ratio", "aspect_ratio": "16:9"}'
ReqAspect ==
  <<123, 34, 111, 112, 101, 114, 97, 116, 105, 111, 110, 34, 58, 32, 34,
    99, 104, 97, 110, 103, 101, 95, 97, 115, 112, 101, 99, 116, 95, 114,
    97, 116, 105, 111, 34, 44, 32, 34, 97, 115, 112, 101, 99, 116, 95, 114,
    97, 116, 105, 111, 34, 58, 32, 34, 49, 54, 58, 57, 34, 125>>

\* '{"operation": "change_aspect_ratio"}'
ReqAspectNone ==
  <<123, 34, 111, 112, 101, 114, 97, 116, 105, 111, 110, 34, 58, 32, 34,
    99, 104, 97, 110, 103, 101, 95, 97, 115, 112, 101, 99, 116, 95, 114,
    97, 116, 105, 111, 34, 125>>

\* '{"operation": "extract_audio"}'
ReqAudio ==
  <<123, 34, 111, 112, 101, 114, 97, 116, 105, 111, 110, 34, 58, 32, 34,
    101, 120, 116, 114, 97, 99, 116, 95, 97, 117, 100, 105, 111, 34, 125>>

\* '{"operation": "create_gif", "start_time": 1.0, "duration": 2.0}'
ReqGif ==
  <<123, 34, 111, 112, 101, 114, 97, 116, 105, 111, 110, 34, 58, 32, 34,
    99, 114, 101, 97, 116, 101, 95, 103, 105, 102, 34, 44, 32, 34, 115,
    116, 97, 114, 116, 95, 116, 105, 109, 101, 34, 58, 32, 49, 46, 48, 44,
    32, 34, 100, 117, 114, 97, 116, 105, 111, 110, 34, 58, 32, 50, 46, 48,
    125>>

\* '{"operation": "create_gif", "start_time": 1.0}'
ReqGifNoDuration ==
  <<123, 34, 111, 112, 101, 114, 97, 116, 105, 111, 110, 34, 58, 32, 34,
    99, 114, 101, 97, 116, 101, 95, 103, 105, 102, 34, 44, 32, 34, 115,
    116, 97, 114, 116, 95, 116, 105, 109, 101, 34, 58, 32, 49, 46, 48, 125>>

\* '{"operation": "create_webm", "start_time": 1.0, "duration": 2.0}'
ReqWebm ==
  <<123, 34, 111, 112, 101, 114, 97, 116, 105, 111, 110, 34, 58, 32, 34,
    99, 114, 101, 97, 116, 101, 95, 119, 101, 98, 109, 34, 44, 32, 34, 115,
    116, 97, 114, 116, 95, 116, 105, 109, 101, 34, 58, 32, 49, 46, 48, 44,
    32, 34, 100, 117, 114, 97, 116, 105, 111, 110, 34, 58, 32, 50, 46, 48,
    125>>

\* '{"operation": "create_webm", "duration": 2.0}'
ReqWebmNoStart ==
  <<123, 34, 111, 112, 101, 114, 97, 116, 105, 111, 110, 34, 58, 32, 34,
    99, 114, 101, 97, 116, 101, 95, 119, 101, 98, 109, 34, 44, 32, 34, 100,
    117, 114, 97, 116, 105, 111, 110, 34, 58, 32, 50, 46, 48, 125>>

\* '{"operation": "rotate"}'
ReqRotate ==
  <<123, 34, 111, 112, 101, 114, 97, 116, 105, 111, 110, 34, 58, 32, 34,
    114, 111, 116, 97, 116, 101, 34, 125>>

\* '{"operation"'
ReqTruncated ==
  <<123, 34, 111, 112, 101, 114, 97, 116, 105, 111, 110, 34>>

\* '[]'
ReqList ==
  <<91, 93>>

\* "'utf-8' codec can't decode byte 0xff in position 0: invalid start byte"
MsgUtf8 ==
  <<39, 117, 116, 102, 45, 56, 39, 32, 99, 111, 100, 101, 99, 32, 99, 97,
    110, 39, 116, 32, 100, 101, 99, 111, 100, 101, 32, 98, 121, 116, 101,
    32, 48, 120, 102, 102, 32, 105, 110, 32, 112, 111, 115, 105, 116, 105,
    111, 110, 32, 48, 58, 32, 105, 110, 118, 97, 108, 105, 100, 32, 115,
    116, 97, 114, 116, 32, 98, 121, 116, 101>>

\* '[Errno 104] Connection reset by peer'
MsgReset ==
  <<91, 69, 114, 114, 110, 111, 32, 49, 48, 52, 93, 32, 67, 111, 110, 110,
    101, 99, 116, 105, 111, 110, 32, 114, 101, 115, 101, 116, 32, 98, 121,
    32, 112, 101, 101, 114>>

\* "[Errno 2] No such file or directory: '" + path + "'" is the text of the
\* FileNotFoundError that open() raises; MsgErrno2 is its fixed prefix.
Quote == <<39>>
Dot == <<46>>
Slash == 47

(***************************************************************************)
(* Byte-string helpers                                                     *)
(***************************************************************************)
Min(a, b) == IF a < b THEN a ELSE b

Rep(b, n) == [i \in 1..n |-> b]

Take(s, n) == SubSeq(s, 1, n)

Drop(s, n) == SubSeq(s, n + 1, Len(s))

\* n.to_bytes(k, 'big') for 0 <= n < 256^k
RECURSIVE ToBytes(_, _)
ToBytes(n, k) ==
  IF k = 0 THEN << >> ELSE ToBytes(n \div 256, k - 1) \o <<n % 256>>

\* int.from_bytes(b, 'big') for a field of at most 3 bytes
RECURSIVE FromBytes(_)
FromBytes(b) ==
  IF b = << >> THEN 0
  ELSE FromBytes(Take(b, Len(b) - 1)) * 256 + b[Len(b)]

\* a > b for two big-endian digit strings of the same length
RECURSIVE DigitsGT(_, _)
DigitsGT(a, b) ==
  IF a = << >> THEN FALSE
  ELSE IF a[1] # b[1] THEN a[1] > b[1]
  ELSE DigitsGT(Tail(a), Tail(b))

\* the 40-bit payload_size is kept as its 5 digits; it is an integer of the
\* model when it is below 2^31
FitsInt(d) == d[1] = 0 /\ d[2] < 128

U40(d) == FromBytes(SubSeq(d, 2, 3)) * 65536 + FromBytes(SubSeq(d, 4, 5))

(***************************************************************************)
(* Frame codec: the 8-byte header                                          *)
(***************************************************************************)
\* client.py send_request line 67 and server.py send_response lines 72-76
EncodeHeader(json_size, media_type_size, payload_size) ==
  ToBytes(json_size, 2) \o <<media_type_size>> \o ToBytes(payload_size, 5)

\* server.py handle_client lines 121-123, client.py receive_response 92-94
DecodeHeader(header) ==
  [json_size       |-> FromBytes(SubSeq(header, 1, 2)),
   media_type_size |-> header[3],
   payload_size    |-> SubSeq(header, 4, 8)]

\* A size that may not fit the integers of the model is kept as hi * 2^20 +
\* lo with lo < 2^20.
Wide(n) == [hi |-> n \div 1048576, lo |-> n % 1048576]

WideGT(a, b) == a.hi > b.hi \/ (a.hi = b.hi /\ a.lo > b.lo)

\* the six big-endian digits of MAX_PAYLOAD_SIZE and the like, as a size
WideOfDigits(d) ==
  [hi |-> d[1] * 1048576 + d[2] * 4096 + d[3] * 16 + d[4] \div 16,
   lo |-> (d[4] % 16) * 65536 + d[5] * 256 + d[6]]

\* a to_bytes that writes the least significant byte first
to_bytes5_little(n) ==
  IF n.hi >= 1048576 THEN [ok |-> FALSE, bytes |-> << >>]
  ELSE [ok |-> TRUE,
        bytes |-> <<n.lo % 256, (n.lo \div 256) % 256,
                    (n.hi % 16) * 16 + n.lo \div 65536,
                    (n.hi \div 16) % 256, n.hi \div 4096>>]

\* payload_size.to_bytes(5, 'big'): OverflowError from 2^40 on
to_bytes5(n) ==
  IF n.hi >= 1048576 THEN [ok |-> FALSE, bytes |-> << >>]
  ELSE [ok |-> TRUE,
        bytes |-> <<n.hi \div 4096, (n.hi \div 16) % 256,
                    (n.hi % 16) * 16 + n.lo \div 65536,
                    (n.lo \div 256) % 256, n.lo % 256>>]

\* int.from_bytes(header[3:8], 'big')
from_bytes5(b) ==
  [hi |-> b[1] * 4096 + b[2] * 16 + b[3] \div 16,
   lo |-> (b[3] % 16) * 65536 + b[4] * 256 + b[5]]

HeaderError(e) == [error |-> e, header |-> << >>]

\* lines 72-76 of send_response and line 67 of send_request
HeaderBytes(json_size, media_type_size, payload_size) ==
  IF json_size >= 65536
  THEN HeaderError("OverflowError: int too big to convert")
  ELSE IF media_type_size >= 256
  THEN HeaderError("ValueError: bytes must be in range(0, 256)")
  ELSE IF ~to_bytes5(payload_size).ok
  THEN HeaderError("OverflowError: int too big to convert")
  ELSE [error |-> "none",
        header |-> ToBytes(json_size, 2) \o <<media_type_size>>
                     \o to_bytes5(payload_size).bytes]

\* a send_response without its size check
ResponseHeaderUnchecked(json_size, media_type_size, payload_size) ==
  HeaderBytes(json_size, media_type_size, payload_size)

\* send_response lines 68-76: the size check and the header
ResponseHeader(json_size, media_type_size, payload_size) ==
  IF json_size > MAX_JSON_SIZE \/ media_type_size > MAX_MEDIA_TYPE_SIZE
       \/ WideGT(payload_size, WideOfDigits(MAX_PAYLOAD_SIZE))
  THEN HeaderError("ValueError: response size exceeds the limit")
  ELSE HeaderBytes(json_size, media_type_size, payload_size)

\* send_request lines 54-68: the three size checks and the header
RequestHeader(json_size, media_type_size, payload_size) ==
  IF json_size > MAX_JSON_SIZE
  THEN HeaderError("ValueError: JSON size exceeds max allowed.")
  ELSE IF media_type_size > MAX_MEDIA_TYPE_SIZE
  THEN HeaderError("ValueError: Media type size exceeds maximum allowed.")
  ELSE IF WideGT(payload_size, WideOfDigits(MAX_PAYLOAD_SIZE))
  THEN HeaderError("ValueError: Payload size exceeds maximum allowed.")
  ELSE HeaderBytes(json_size, media_type_size, payload_size)

(***************************************************************************)
(* recv_all: the receive loop over the bytes the peer sends before it      *)
(* closes its side.  One recv returns what the socket holds, at most what   *)
(* was asked for; an empty recv is end-of-data.                            *)
(***************************************************************************)
RECURSIVE RecvLoop(_, _, _)
RecvLoop(data, stream, length) ==
  IF Len(data) >= length
  THEN [ok |-> TRUE, data |-> data, rest |-> stream]
  ELSE LET more == Take(stream, Min(length - Len(data), Len(stream)))
       IN  IF more = << >>
           THEN [ok |-> FALSE, data |-> data, rest |-> stream]
           ELSE RecvLoop(data \o more, Drop(stream, Len(more)), length)

recv_all(stream, length) == RecvLoop(<< >>, stream, length)

\* recv_all with the 40-bit payload_size: a stream of the model never holds
\* 2^31 bytes, so such a read ends in end-of-data
recv_all_u40(stream, d) ==
  IF FitsInt(d) THEN recv_all(stream, U40(d))
  ELSE [ok |-> FALSE, data |-> stream, rest |-> << >>]

\* bytes.decode('utf-8') succeeds; the streams of the model hold ASCII bytes
\* and the byte 0xFF only, and 0xFF is never valid UTF-8
Utf8Ok(bs) == \A i \in 1..Len(bs) : bs[i] < 128

(***************************************************************************)
(* JSON                                                                    *)
(***************************************************************************)
\* json.dumps escapes '"' and '\'; the texts of the model are printable
\* ASCII otherwise
RECURSIVE JsonEscape(_)
JsonEscape(s) ==
  IF \A i \in 1..Len(s) : s[i] \notin {34, 92} THEN s
  ELSE IF s[1] \in {34, 92} THEN <<92, s[1]>> \o JsonEscape(Tail(s))
  ELSE <<s[1]>> \o JsonEscape(Tail(s))

\* json.dumps({"status": status, "message": message}).encode("utf-8")
JsonDumps(status, message) ==
  JsonOpenStatus \o JsonEscape(status) \o JsonMidMessage
    \o JsonEscape(message) \o JsonClose

\* json.loads on the request texts of the model.  A value is kept as its
\* JSON literal; "null" is Python's None.
NoArgs == [none |-> "null"]

JsonLoads(text) ==
  CASE text = ReqCompress ->
         [ok |-> TRUE, dict |-> TRUE, msg |-> << >>,
          args |-> [operation |-> "\"compress\""]]
    [] text = ReqResolution ->
         [ok |-> TRUE, dict |-> TRUE, msg |-> << >>,
          args |-> [operation |-> "\"change_resolution\"",
                    width |-> "640", height |-> "480"]]
    [] text = ReqResolutionNoHeight ->
         [ok |-> TRUE, dict |-> TRUE, msg |-> << >>,
          args |-> [operation |-> "\"change_resolution\"", width |-> "640"]]
    [] text = ReqAspect ->
         [ok |-> TRUE, dict |-> TRUE, msg |-> << >>,
          args |-> [operation |-> "\"change_aspect_ratio\"",
                    aspect_ratio |-> "\"16:9\""]]
    [] text = ReqAspectNone ->
         [ok |-> TRUE, dict |-> TRUE, msg |-> << >>,
          args |-> [operation |-> "\"change_aspect_ratio\""]]
    [] text = ReqAudio ->
         [ok |-> TRUE, dict |-> TRUE, msg |-> << >>,
          args |-> [operation |-> "\"extract_audio\""]]
    [] text = ReqGif ->
         [ok |-> TRUE, dict |-> TRUE, msg |-> << >>,
          args |-> [operation |-> "\"create_gif\"",
                    start_time |-> "1.0", duration |-> "2.0"]]
    [] text = ReqGifNoDuration ->
         [ok |-> TRUE, dict |-> TRUE, msg |-> << >>,
          args |-> [operation |-> "\"create_gif\"", start_time |-> "1.0"]]
    [] text = ReqWebm ->
         [ok |-> TRUE, dict |-> TRUE, msg |-> << >>,
          args |-> [operation |-> "\"create_webm\"",
                    start_time |-> "1.0", duration |-> "2.0"]]
    [] text = ReqWebmNoStart ->
         [ok |-> TRUE, dict |-> TRUE, msg |-> << >>,
          args |-> [operation |-> "\"create_webm\"", duration |-> "2.0"]]
    [] text = ReqRotate ->
         [ok |-> TRUE, dict |-> TRUE, msg |-> << >>,
          args |-> [operation |-> "\"rotate\""]]
    [] text = ReqList ->
         [ok |-> TRUE, dict |-> FALSE, msg |-> << >>, args |-> NoArgs]
    [] text = ReqTruncated ->
         [ok |-> FALSE, dict |-> FALSE, msg |-> MsgJsonDelim, args |-> NoArgs]
    [] OTHER ->
         [ok |-> FALSE, dict |-> FALSE, msg |-> MsgJsonEmpty, args |-> NoArgs]

\* dict.get(key): None when the key is absent
Get(args, key) == IF key \in DOMAIN args THEN args[key] ELSE "null"

\* a test for the empty string only, where "not v" was meant
FalsyEmptyOnly(v) == v = "\"\""

\* Python truthiness of a JSON value: "not v"
Falsy(v) == v \in {"null", "0", "0.0", "\"\"", "false", "[]", "{}"}

(***************************************************************************)
(* process_request                                                         *)
(***************************************************************************)
\* os.path.join(UPLOAD_DIR, f"input_{uuid.uuid4()}.{media_type}")
InputPath(media_type) == UploadPrefix \o Uuid \o Dot \o media_type

\* open(input_path, 'wb') fails when the media type names a directory that
\* does not exist (a '/' before its last byte)
OpenFails(media_type) ==
  \E i \in 1..(Len(media_type) - 1) : media_type[i] = Slash

\* what the external transcoder (ffmpeg ... .run) can do
Transcodes == {"ok", "fail"}

\* the contents of an output file
Outputs == {<<0, 1>>}

Raised(message, ran, files) ==
  [kind |-> "raise", dict |-> FALSE, status |-> << >>, message |-> message,
   media_type |-> << >>, payload |-> << >>, ffmpeg |-> ran, files |-> files]

\* one of the six ffmpeg pipelines, then reading the output back
RunFfmpeg(ext, tc, out) ==
  IF tc = "ok"
  THEN [kind |-> "return", dict |-> TRUE, status |-> StatusSuccess,
        message |-> MsgCompleted, media_type |-> ext, payload |-> out,
        ffmpeg |-> 1, files |-> {"output"}]
  ELSE Raised(MsgFfmpeg, 1, {})

\* an else branch that falls through to the compress pipeline
UnsupportedAsCompress(tc, out) == RunFfmpeg(Mp4, tc, out)

\* lines 237-238: else: raise ValueError('Unsupported operation.')
UnsupportedOperation(tc, out) == Raised(MsgUnsupported, 0, {})

\* the result of process_request(json_args, media_type, payload): what it
\* returns or raises, whether ffmpeg ran, and the files it leaves behind
process_request(json_args, media_type, payload, tc, out) ==
  LET parsed    == JsonLoads(json_args)
      args      == parsed.args
      operation == Get(args, "operation")
  IN
  IF OpenFails(media_type)
  THEN Raised(MsgErrno2 \o InputPath(media_type) \o Quote, 0, {})
  ELSE IF ~parsed.ok THEN Raised(parsed.msg, 0, {})
  ELSE IF ~parsed.dict THEN Raised(MsgNoGet, 0, {})
  ELSE CASE operation = "\"compress\"" -> RunFfmpeg(Mp4, tc, out)
         [] operation = "\"change_resolution\"" ->
              IF Falsy(Get(args, "width")) \/ Falsy(Get(args, "height"))
              THEN Raised(MsgWidthHeight, 0, {})
              ELSE RunFfmpeg(Mp4, tc, out)
         [] operation = "\"change_aspect_ratio\"" ->
              IF Falsy(Get(args, "aspect_ratio"))
              THEN \* "return ValueError(...)": the exception object is
                   \* returned, not raised, and the input file stays
                   [kind |-> "return", dict |-> FALSE, status |-> << >>,
                    message |-> MsgAspect, media_type |-> << >>,
                    payload |-> << >>, ffmpeg |-> 0, files |-> {"input"}]
              ELSE RunFfmpeg(Mp4, tc, out)
         [] operation = "\"extract_audio\"" -> RunFfmpeg(Mp3, tc, out)
         [] operation = "\"create_gif\"" ->
              IF Get(args, "start_time") = "null"
                   \/ Get(args, "duration") = "null"
              THEN Raised(MsgGif, 0, {})
              ELSE RunFfmpeg(Gif, tc, out)
         [] operation = "\"create_webm\"" ->
              IF Get(args, "start_time") = "null"
                   \/ Get(args, "duration") = "null"
              THEN Raised(MsgWebm, 0, {})
              ELSE RunFfmpeg(Webm, tc, out)
         [] OTHER -> UnsupportedOperation(tc, out)

(***************************************************************************)
(* send_response: the message it builds                                    *)
(***************************************************************************)
NoResp ==
  [ok |-> FALSE, status |-> << >>, message |-> << >>, json |-> << >>,
   media_type |-> << >>, payload |-> << >>, header |-> << >>]

\* lines 61-76: the JSON, the size check and the header
BuildResponse(status, message, media_type, payload) ==
  LET response_json == JsonDumps(status, message)
      json_size == Len(response_json)
      media_type_size == Len(media_type)
      payload_size == Len(payload)
      h == ResponseHeader(json_size, media_type_size, Wide(payload_size))
  IN  [ok |-> h.error = "none", status |-> status, message |-> message,
       json |-> response_json, media_type |-> media_type,
       payload |-> payload, header |-> h.header]

(***************************************************************************)
(* The client's parser (client.py receive_response) applied to all the     *)
(* bytes a server wrote on a connection before closing it                  *)
(***************************************************************************)
receive_response(sock) ==
  LET h == recv_all(sock, HEADER_SIZE)
  IN  IF ~h.ok
      THEN [ok |-> FALSE, asked |-> <<HEADER_SIZE>>, json_data |-> << >>,
            media_type |-> << >>, payload |-> << >>, rest |-> h.rest]
      ELSE
      LET d  == DecodeHeader(h.data)
          j  == IF d.json_size > 0 THEN recv_all(h.rest, d.json_size)
                ELSE [ok |-> TRUE, data |-> << >>, rest |-> h.rest]
          m  == IF d.media_type_size > 0
                THEN recv_all(j.rest, d.media_type_size)
                ELSE [ok |-> TRUE, data |-> << >>, rest |-> j.rest]
          p  == IF d.payload_size # <<0, 0, 0, 0, 0>>
                THEN recv_all_u40(m.rest, d.payload_size)
                ELSE [ok |-> TRUE, data |-> << >>, rest |-> m.rest]
      IN  [ok |-> j.ok /\ Utf8Ok(j.data) /\ m.ok /\ Utf8Ok(m.data) /\ p.ok,
           \* the lengths recv_all was called with, in order
           asked |-> <<HEADER_SIZE>>
                     \o (IF d.json_size > 0 THEN <<d.json_size>> ELSE << >>)
                     \o (IF j.ok /\ Utf8Ok(j.data) /\ d.media_type_size > 0
                         THEN <<d.media_type_size>> ELSE << >>),
           json_data |-> j.data, media_type |-> m.data, payload |-> p.data,
           rest |-> p.rest]

(***************************************************************************)
(* Requests                                                                *)
(***************************************************************************)
\* client.py send_request (header + JSON + media type) followed by the
\* payload chunks of upload_file
BuildRequest(json_bytes, media_type_bytes, payload) ==
  EncodeHeader(Len(json_bytes), Len(media_type_bytes), Len(payload))
    \o json_bytes \o media_type_bytes \o payload

\* the payload of a request: the bytes of the uploaded file
FileBytes == <<7>>

\* a media type of 93 bytes, "/bbb...b"
LongMediaType == <<Slash>> \o Rep(98, 92)

\* well-formed requests of a client
ClientRequests ==
  {BuildRequest(j, Mp4, FileBytes) :
     j \in {ReqCompress, ReqResolution, ReqResolutionNoHeight, ReqAspect,
            ReqAspectNone, ReqAudio, ReqGif, ReqGifNoDuration, ReqWebm,
            ReqWebmNoStart, ReqRotate, ReqTruncated, ReqList, << >>}}

\* streams of a peer that does not follow the protocol
RawStreams ==
  { \* closes inside the header
    Take(BuildRequest(ReqCompress, Mp4, FileBytes), 5),
    \* closes inside the payload
    Take(BuildRequest(ReqCompress, Mp4, FileBytes),
         Len(BuildRequest(ReqCompress, Mp4, FileBytes)) - 1),
    \* declares json_size = 217 and closes
    EncodeHeader(MAX_JSON_SIZE + 1, 3, 0),
    \* declares media_type_size = 93 and sends such a media type
    BuildRequest(ReqCompress, LongMediaType, FileBytes),
    \* a media type that is not UTF-8
    BuildRequest(ReqCompress, <<255>>, FileBytes) }

\* the two requests of the runs that are about concurrency
FewRequests ==
  {BuildRequest(ReqCompress, Mp4, FileBytes),
   Take(BuildRequest(ReqCompress, Mp4, FileBytes), 5)}

AllRequests == ClientRequests \cup RawStreams

IPs == {"10.0.0.1", "10.0.0.2"}

Conns == 1..MaxConns

(***************************************************************************)
(* State                                                                   *)
(***************************************************************************)
VARIABLES
  server,      \* "running" while start_server's process lives, else "exited"
  active_ips,  \* the dict active_ips: a function on the addresses it holds
  ip,          \* client_address[0] of each connection
  inbuf,       \* the bytes the peer sends before closing, not yet received
  pc,          \* where the handler thread of each connection stands
  hdr,         \* json_size, media_type_size, payload_size of handle_client
  req,         \* json_data, media_type, payload of handle_client
  exc,         \* str(e) of the exception the except clause caught
  result,      \* what process_request returned
  resp,        \* the locals of the running send_response
  wire,        \* all the bytes the server wrote on the connection
  sentResp,    \* the responses whose last sendall returned
  closed,      \* connection.close() was called
  connUp,      \* no socket call has found the connection reset
  resets,      \* the peers that reset their connection at some time
  quota,       \* the 10-second sleeps that can end while c is served
  stop_event,  \* the threading.Event of the connection
  hb,          \* where the heartbeat thread (send_progress) stands
  beats,       \* heartbeat lines delivered
  nreads,      \* the lengths recv_all was called with, in order
  ffmpegRuns,  \* invocations of the transcoder for the connection
  uploads,     \* the temporary files of the job that exist
  acq,         \* times the handler incremented active_ips[ip]
  rel,         \* times the handler decremented active_ips[ip]
  rcv,         \* one call of recv_all: its arguments and locals
  enc,         \* one header: the sizes, the 8 bytes built, the sizes decoded
  cli          \* one invocation of the client's upload_file

vars ==
  <<server, active_ips, ip, inbuf, pc, hdr, req, exc, result, resp, wire,
    sentResp, closed, connUp, resets, quota, stop_event, hb, beats, nreads, ffmpegRuns,
    uploads, acq, rel, rcv, enc, cli>>

\* groups for UNCHANGED
recvVars == <<inbuf, hdr, req, nreads>>
jobVars  == <<result, ffmpegRuns, uploads>>
sendVars == <<resp, wire, sentResp>>
hbVars   == <<stop_event, hb, beats>>
admVars  == <<active_ips, acq, rel>>
envVars  == <<server, ip, resets, quota>>
\* the function calls that are followed on their own, outside a handler
unitVars == <<rcv, enc, cli>>

NoHdr == [json_size |-> 0, media_type_size |-> 0,
          payload_size |-> <<0, 0, 0, 0, 0>>]

NoReq == [json_data |-> << >>, media_type |-> << >>, payload |-> << >>]

NoResult == Raised(<< >>, 0, {})

EmptyDict == [a \in {} |-> 0]

\* dict.get(key, default), d[key] = value and del d[key]
DictGet(d, key, default) == IF key \in DOMAIN d THEN d[key] ELSE default

DictSet(d, key, value) ==
  [a \in DOMAIN d \cup {key} |-> IF a = key THEN value ELSE d[a]]

DictDel(d, key) == [a \in DOMAIN d \ {key} |-> d[a]]

\* the handler threads that exist
Live == {c \in Conns : pc[c] \notin {"absent", "pending", "done", "killed"}}

NoTriple == [json_size |-> 0, media_type_size |-> 0, payload_size |-> Wide(0)]

\* no call of recv_all is followed
NoCall ==
  [pc |-> "none", peer |-> << >>, connection |-> << >>, length |-> 0,
   data |-> << >>, recvs |-> 0]

\* a file of the client's machine: whether the path is a regular file,
\* whether its name ends in .mp4, its bytes and os.path.getsize
File(isfile, mp4name, bytes, filesize) ==
  [isfile |-> isfile, mp4name |-> mp4name, bytes |-> bytes,
   filesize |-> filesize]

\* no invocation of upload_file is followed
NoUpload ==
  [pc |-> "none", file |-> File(FALSE, FALSE, << >>, Wide(0)),
   json |-> << >>, incoming |-> << >>, payload |-> << >>, connects |-> 0,
   out |-> << >>, offset |-> 0, responses |-> 0, outcome |-> "none",
   saved |-> << >>]

\* no header is followed
NoHeader ==
  [pc |-> "none", side |-> "none", json_size |-> 0, media_type_size |-> 0,
   payload_size |-> Wide(0), error |-> "none", header |-> << >>,
   sent |-> << >>, got |-> NoTriple]

\* arriving: the connections that arrive; requests[c]: what the peer of c
\* may send; resetting: the peers that reset their connection; slow: the
\* connections whose service lasts long enough for heartbeat lines
InitWith(arriving, requests, resetting, slow) ==
  /\ server = "running"
  /\ active_ips = EmptyDict
  \* the two addresses are interchangeable: the first connection has the
  \* first one
  /\ ip \in {f \in [Conns -> IPs] :
               \A c \in {1} \cup (Conns \ arriving) : f[c] = "10.0.0.1"}
  /\ inbuf \in {f \in [Conns -> AllRequests] :
                  \A c \in Conns : f[c] \in requests[c]}
  /\ resets = resetting
  /\ quota = [c \in Conns |-> IF c \in slow THEN MaxBeats ELSE 0]
  /\ pc = [c \in Conns |-> IF c \in arriving THEN "pending" ELSE "absent"]
  /\ hdr = [c \in Conns |-> NoHdr]
  /\ req = [c \in Conns |-> NoReq]
  /\ exc = [c \in Conns |-> << >>]
  /\ result = [c \in Conns |-> NoResult]
  /\ resp = [c \in Conns |-> NoResp]
  /\ wire = [c \in Conns |-> << >>]
  /\ sentResp = [c \in Conns |-> << >>]
  /\ closed = [c \in Conns |-> FALSE]
  /\ connUp = [c \in Conns |-> TRUE]
  /\ stop_event = [c \in Conns |-> FALSE]
  /\ hb = [c \in Conns |-> "unstarted"]
  /\ beats = [c \in Conns |-> 0]
  /\ nreads = [c \in Conns |-> << >>]
  /\ ffmpegRuns = [c \in Conns |-> 0]
  /\ uploads = [c \in Conns |-> {}]
  /\ acq = [c \in Conns |-> 0]
  /\ rel = [c \in Conns |-> 0]

\* every connection arrives; the peers send a whole compress request or
\* close inside the header and do not reset; every job is over before the
\* first heartbeat line is due
Init ==
  /\ InitWith(Conns, [c \in Conns |-> FewRequests], {}, {})
  /\ rcv = NoCall
  /\ enc = NoHeader
  /\ cli = NoUpload

\* two connections arrive; the first peer sends any request of the model,
\* may reset its connection and may be served for long; the second sends a
\* whole compress request
InitRequests ==
  /\ InitWith({1, 2},
              [c \in Conns |-> IF c = 1 THEN AllRequests
                               ELSE {BuildRequest(ReqCompress, Mp4,
                                                  FileBytes)}],
              {1}, {1})
  /\ rcv = NoCall
  /\ enc = NoHeader
  /\ cli = NoUpload

(***************************************************************************)
(* start_server: the accept loop                                           *)
(***************************************************************************)
\* lines 264-267: accept and start the handler thread
Accept(c) ==
  /\ server = "running"
  /\ pc[c] = "pending"
  /\ pc' = [pc EXCEPT ![c] = "admission"]
  /\ UNCHANGED <<recvVars, jobVars, sendVars, hbVars, admVars, envVars, unitVars,
                 exc, closed, connUp>>

\* an interrupt that ends the accept loop and leaves the threads alone
InterruptLeavesThreads ==
  /\ server = "running"
  /\ server' = "exited"
  /\ UNCHANGED <<recvVars, jobVars, sendVars, hbVars, admVars, ip, resets,
                 quota, pc, exc, closed, connUp, unitVars>>

\* lines 268-270: KeyboardInterrupt ends the loop and with it the process.
\* The handler threads are daemon threads (line 266), and the heartbeat
\* threads they start inherit that: they all end where they stand, and the
\* memory of the process (the dict, the locals, the sockets) is gone.
Interrupt ==
  /\ server = "running"
  /\ server' = "exited"
  /\ pc' = [c \in Conns |-> IF c \in Live THEN "killed" ELSE pc[c]]
  /\ hb' = [c \in Conns |-> IF hb[c] \in {"check", "sleep"} THEN "killed"
                             ELSE "unstarted"]
  /\ active_ips' = EmptyDict
  /\ inbuf' = [c \in Conns |-> << >>]
  /\ hdr' = [c \in Conns |-> NoHdr]
  /\ req' = [c \in Conns |-> NoReq]
  /\ exc' = [c \in Conns |-> << >>]
  /\ result' = [c \in Conns |-> NoResult]
  /\ resp' = [c \in Conns |-> NoResp]
  /\ wire' = [c \in Conns |-> << >>]
  /\ sentResp' = [c \in Conns |-> << >>]
  /\ closed' = [c \in Conns |-> TRUE]
  /\ connUp' = [c \in Conns |-> TRUE]
  /\ stop_event' = [c \in Conns |-> FALSE]
  /\ beats' = [c \in Conns |-> 0]
  /\ nreads' = [c \in Conns |-> << >>]
  /\ ffmpegRuns' = [c \in Conns |-> 0]
  /\ acq' = [c \in Conns |-> 0]
  /\ rel' = [c \in Conns |-> 0]
  /\ UNCHANGED <<ip, resets, quota, uploads, unitVars>>

\* One socket call (recv, sendall) on connection c.  A peer that resets its
\* connection may have done so by then: the call and every later one raise.
\* up tells whether this call still finds the connection up.
SocketCall(c, up) ==
  /\ up \in (IF connUp[c] /\ c \in resets THEN BOOLEAN ELSE {connUp[c]})
  /\ connUp' = [connUp EXCEPT ![c] = up]

(***************************************************************************)
(* handle_client                                                           *)
(***************************************************************************)
\* the three sendall calls of send_response (lines 79-81) as one write
WholeResponse(r) ==
  FINAL_MARKER \o r.header \o (r.json \o r.media_type \o r.payload)

Logged(r) ==
  [status |-> r.status, message |-> r.message, media_type |-> r.media_type,
   payload |-> r.payload]

\* an admission that increments without looking at the counter
AdmitUnchecked(c) ==
  /\ server = "running"
  /\ pc[c] = "admission"
  /\ active_ips' = DictSet(active_ips, ip[c],
                           DictGet(active_ips, ip[c], 0) + 1)
  /\ acq' = [acq EXCEPT ![c] = @ + 1]
  /\ pc' = [pc EXCEPT ![c] = "recv_header"]
  /\ UNCHANGED <<recvVars, jobVars, sendVars, hbVars, envVars, unitVars, exc, closed,
                 connUp, rel>>

\* an admission that looks at the whole dict instead of the entry of the
\* address: one operation in flight for the server
AdmitGlobal(c) ==
  /\ server = "running"
  /\ pc[c] = "admission"
  /\ DOMAIN active_ips = {}
  /\ active_ips' = DictSet(active_ips, ip[c],
                           DictGet(active_ips, ip[c], 0) + 1)
  /\ acq' = [acq EXCEPT ![c] = @ + 1]
  /\ pc' = [pc EXCEPT ![c] = "recv_header"]
  /\ UNCHANGED <<recvVars, jobVars, sendVars, hbVars, envVars, unitVars, exc, closed,
                 connUp, rel>>

\* lines 106-107, 112-113: under the lock, the address has no operation in
\* flight and gets one
Admit(c) ==
  /\ server = "running"
  /\ pc[c] = "admission"
  /\ ~(DictGet(active_ips, ip[c], 0) >= 1)
  /\ active_ips' = DictSet(active_ips, ip[c],
                           DictGet(active_ips, ip[c], 0) + 1)
  /\ acq' = [acq EXCEPT ![c] = @ + 1]
  /\ pc' = [pc EXCEPT ![c] = "recv_header"]
  /\ UNCHANGED <<recvVars, jobVars, sendVars, hbVars, envVars, unitVars, exc, closed,
                 connUp, rel>>

\* a rejection that leaves through the finally clause of the handler
RejectThroughFinally(c) ==
  /\ server = "running"
  /\ pc[c] = "admission"
  /\ DictGet(active_ips, ip[c], 0) >= 1
  /\ \E up \in BOOLEAN :
       LET r == BuildResponse(StatusError, MsgOnlyOne, << >>, << >>)
       IN  /\ SocketCall(c, up)
           /\ IF r.ok /\ up
              THEN /\ wire' = [wire EXCEPT ![c] = @ \o WholeResponse(r)]
                   /\ sentResp' = [sentResp EXCEPT ![c] =
                                     Append(@, Logged(r))]
              ELSE UNCHANGED <<wire, sentResp>>
  /\ pc' = [pc EXCEPT ![c] = "finally"]
  /\ UNCHANGED <<recvVars, jobVars, hbVars, admVars, envVars, unitVars, exc, resp,
                 closed>>

\* lines 106-111: under the lock, the address is busy: send the rejection,
\* close and return
Reject(c) ==
  /\ server = "running"
  /\ pc[c] = "admission"
  /\ DictGet(active_ips, ip[c], 0) >= 1
  /\ \E up \in BOOLEAN :
       LET r == BuildResponse(StatusError, MsgOnlyOne, << >>, << >>)
       IN  /\ SocketCall(c, up)
           /\ IF r.ok /\ up
              THEN /\ wire' = [wire EXCEPT ![c] = @ \o WholeResponse(r)]
                   /\ sentResp' = [sentResp EXCEPT ![c] =
                                     Append(@, Logged(r))]
              ELSE UNCHANGED <<wire, sentResp>>
  /\ closed' = [closed EXCEPT ![c] = TRUE]
  /\ pc' = [pc EXCEPT ![c] = "done"]
  /\ inbuf' = [inbuf EXCEPT ![c] = << >>]
  /\ UNCHANGED <<hdr, req, nreads, jobVars, hbVars, admVars, envVars, unitVars, exc,
                 resp>>

Read(field, length) == [field |-> field, length |-> length]

\* line 120-123: receive and decode the header
RecvHeader(c) ==
  /\ server = "running"
  /\ pc[c] = "recv_header"
  /\ nreads' = [nreads EXCEPT ![c] = Append(@, Read("header", HEADER_SIZE))]
  /\ \E up \in BOOLEAN :
     LET r == recv_all(inbuf[c], HEADER_SIZE)
     IN  /\ SocketCall(c, up)
         /\ IF ~up
            THEN /\ exc' = [exc EXCEPT ![c] = MsgReset]
                 /\ pc' = [pc EXCEPT ![c] = "except"]
                 /\ UNCHANGED <<inbuf, hdr>>
            ELSE IF ~r.ok
            THEN /\ exc' = [exc EXCEPT ![c] = MsgEOF]
                 /\ pc' = [pc EXCEPT ![c] = "except"]
                 /\ inbuf' = [inbuf EXCEPT ![c] = << >>]
                 /\ UNCHANGED hdr
            ELSE /\ hdr' = [hdr EXCEPT ![c] = DecodeHeader(r.data)]
                 /\ inbuf' = [inbuf EXCEPT ![c] = r.rest]
                 /\ pc' = [pc EXCEPT ![c] = "recv_body"]
                 /\ UNCHANGED exc
  /\ UNCHANGED <<req, jobVars, sendVars, hbVars, admVars, envVars, unitVars, closed>>

\* lines 126-131: receive the three body segments with the sizes the header
\* declared, parse the JSON for the log line, start the heartbeat thread
RecvBody(c) ==
  /\ server = "running"
  /\ pc[c] = "recv_body"
  /\ \E up \in BOOLEAN :
     LET h  == hdr[c]
         j  == recv_all(inbuf[c], h.json_size)
         m  == recv_all(j.rest, h.media_type_size)
         p  == recv_all_u40(m.rest, h.payload_size)
         jOk == j.ok /\ Utf8Ok(j.data)
         mOk == jOk /\ m.ok /\ Utf8Ok(m.data)
         parsed == JsonLoads(j.data)
         failure ==
           IF ~up THEN MsgReset
           ELSE IF ~j.ok THEN MsgEOF
           ELSE IF ~Utf8Ok(j.data) THEN MsgUtf8
           ELSE IF ~m.ok THEN MsgEOF
           ELSE IF ~Utf8Ok(m.data) THEN MsgUtf8
           ELSE IF ~p.ok THEN MsgEOF
           ELSE IF ~parsed.ok THEN parsed.msg
           ELSE IF ~parsed.dict THEN MsgNoGet
           ELSE << >>
         issued ==
           <<Read("json", h.json_size)>>
             \o (IF up /\ jOk
                 THEN <<Read("media_type", h.media_type_size)>> ELSE << >>)
             \o (IF up /\ mOk
                 THEN <<Read("payload", h.payload_size)>> ELSE << >>)
     IN  /\ SocketCall(c, up)
         /\ nreads' = [nreads EXCEPT ![c] = @ \o issued]
         /\ IF failure # << >>
            THEN /\ exc' = [exc EXCEPT ![c] = failure]
                 /\ pc' = [pc EXCEPT ![c] = "except"]
                 /\ inbuf' = [inbuf EXCEPT ![c] =
                                IF ~up THEN @
                                ELSE IF mOk THEN p.rest
                                ELSE IF jOk THEN m.rest ELSE j.rest]
                 /\ UNCHANGED <<req, hb>>
            ELSE /\ req' = [req EXCEPT ![c] =
                              [json_data |-> j.data, media_type |-> m.data,
                               payload |-> p.data]]
                 /\ inbuf' = [inbuf EXCEPT ![c] = p.rest]
                 /\ hb' = [hb EXCEPT ![c] = "check"]
                 /\ pc' = [pc EXCEPT ![c] = "process"]
                 /\ UNCHANGED exc
  /\ UNCHANGED <<hdr, jobVars, sendVars, stop_event, beats, admVars,
                 envVars, unitVars, closed>>

\* lines 134-137: process_request, and on its return stop_event.set()
Process(c) ==
  /\ server = "running"
  /\ pc[c] = "process"
  /\ \E tc \in Transcodes, out \in Outputs :
       LET r == process_request(req[c].json_data, req[c].media_type,
                                req[c].payload, tc, out)
       IN  /\ ffmpegRuns' = [ffmpegRuns EXCEPT ![c] = @ + r.ffmpeg]
           /\ uploads' = [uploads EXCEPT ![c] = r.files]
           /\ IF r.kind = "return"
              THEN /\ result' = [result EXCEPT ![c] = r]
                   /\ stop_event' = [stop_event EXCEPT ![c] = TRUE]
                   /\ pc' = [pc EXCEPT ![c] = "join"]
                   /\ UNCHANGED exc
              ELSE /\ exc' = [exc EXCEPT ![c] = r.message]
                   /\ pc' = [pc EXCEPT ![c] = "except"]
                   /\ UNCHANGED <<result, stop_event>>
  /\ UNCHANGED <<recvVars, sendVars, hb, beats, admVars, envVars, unitVars, closed,
                 connUp>>

\* line 138: progress_thread.join() returns when the heartbeat thread ended
Join(c) ==
  /\ server = "running"
  /\ pc[c] = "join"
  /\ hb[c] = "exited"
  /\ pc' = [pc EXCEPT ![c] = "respond"]
  /\ UNCHANGED <<recvVars, jobVars, sendVars, hbVars, admVars, envVars, unitVars,
                 exc, closed, connUp>>

\* send_response lines 59-79 and 83-84: build the message, check the sizes,
\* write the marker; any failure is logged and ends send_response
StartSend(c, status, message, media_type, payload) ==
  LET r == BuildResponse(status, message, media_type, payload)
  IN  IF ~r.ok
      THEN /\ pc' = [pc EXCEPT ![c] = "finally"]
           /\ UNCHANGED <<wire, resp, connUp>>
      ELSE \E up \in BOOLEAN :
             /\ SocketCall(c, up)
             /\ IF up
                THEN /\ wire' = [wire EXCEPT ![c] = @ \o FINAL_MARKER]
                     /\ resp' = [resp EXCEPT ![c] = r]
                     /\ pc' = [pc EXCEPT ![c] = "send_header"]
                ELSE /\ pc' = [pc EXCEPT ![c] = "finally"]
                     /\ UNCHANGED <<wire, resp>>

\* line 141: send the result of process_request; subscripting the returned
\* ValueError raises TypeError
Respond(c) ==
  /\ server = "running"
  /\ pc[c] = "respond"
  /\ IF result[c].dict
     THEN /\ StartSend(c, result[c].status, result[c].message,
                       result[c].media_type, result[c].payload)
          /\ UNCHANGED exc
     ELSE /\ exc' = [exc EXCEPT ![c] = MsgNotSubscriptable]
          /\ pc' = [pc EXCEPT ![c] = "except"]
          /\ UNCHANGED <<wire, resp, connUp>>
  /\ UNCHANGED <<recvVars, jobVars, sentResp, hbVars, admVars, envVars, unitVars,
                 closed>>

\* lines 144-146: the except clause sends the error response
Except(c) ==
  /\ server = "running"
  /\ pc[c] = "except"
  /\ StartSend(c, StatusError, exc[c], << >>, << >>)
  /\ UNCHANGED <<recvVars, jobVars, sentResp, hbVars, admVars, envVars, unitVars,
                 exc, closed>>

\* send_response line 80
SendHeader(c) ==
  /\ server = "running"
  /\ pc[c] = "send_header"
  /\ \E up \in BOOLEAN :
       /\ SocketCall(c, up)
       /\ IF up
          THEN /\ wire' = [wire EXCEPT ![c] = @ \o resp[c].header]
               /\ pc' = [pc EXCEPT ![c] = "send_body"]
          ELSE /\ pc' = [pc EXCEPT ![c] = "finally"]
               /\ UNCHANGED wire
  /\ UNCHANGED <<recvVars, jobVars, resp, sentResp, hbVars, admVars,
                 envVars, unitVars, exc, closed>>

\* send_response line 81
SendBody(c) ==
  /\ server = "running"
  /\ pc[c] = "send_body"
  /\ \E up \in BOOLEAN :
       /\ SocketCall(c, up)
       /\ IF up
          THEN /\ wire' = [wire EXCEPT ![c] =
                             @ \o (resp[c].json \o resp[c].media_type
                                     \o resp[c].payload)]
               /\ sentResp' = [sentResp EXCEPT ![c] =
                                 Append(@, Logged(resp[c]))]
          ELSE UNCHANGED <<wire, sentResp>>
  /\ pc' = [pc EXCEPT ![c] = "finally"]
  /\ UNCHANGED <<recvVars, jobVars, resp, hbVars, admVars, envVars, unitVars, exc,
                 closed>>

\* a handler that releases at the end of the try block only: the except
\* path closes and ends
CloseWithoutFinally(c) ==
  /\ server = "running"
  /\ pc[c] = "finally"
  /\ closed' = [closed EXCEPT ![c] = TRUE]
  /\ pc' = [pc EXCEPT ![c] = IF exc[c] = << >> THEN "release" ELSE "done"]
  /\ UNCHANGED <<recvVars, jobVars, sendVars, hbVars, admVars, envVars, unitVars,
                 exc, connUp>>

\* line 149: finally, connection.close()
Close(c) ==
  /\ server = "running"
  /\ pc[c] = "finally"
  /\ closed' = [closed EXCEPT ![c] = TRUE]
  /\ pc' = [pc EXCEPT ![c] = "release"]
  /\ UNCHANGED <<recvVars, jobVars, sendVars, hbVars, admVars, envVars, unitVars,
                 exc, connUp>>

\* a release that forgets the decrement: the entry is never zero
ReleaseNoDecrement(c) ==
  /\ server = "running"
  /\ pc[c] = "release"
  /\ IF ip[c] \in DOMAIN active_ips
     THEN /\ active_ips' =
               IF active_ips[ip[c]] = 0
               THEN DictDel(active_ips, ip[c])
               ELSE active_ips
          /\ rel' = [rel EXCEPT ![c] = @ + 1]
     ELSE UNCHANGED <<active_ips, rel>>
  /\ pc' = [pc EXCEPT ![c] = "done"]
  /\ inbuf' = [inbuf EXCEPT ![c] = << >>]
  /\ hdr' = [hdr EXCEPT ![c] = NoHdr]
  /\ req' = [req EXCEPT ![c] = NoReq]
  /\ exc' = [exc EXCEPT ![c] = << >>]
  /\ result' = [result EXCEPT ![c] = NoResult]
  /\ resp' = [resp EXCEPT ![c] = NoResp]
  /\ UNCHANGED <<nreads, ffmpegRuns, uploads, wire, sentResp, hbVars,
                 envVars, unitVars, closed, connUp, acq>>

\* a release that decrements and never deletes the entry
ReleaseKeepsEntry(c) ==
  /\ server = "running"
  /\ pc[c] = "release"
  /\ IF ip[c] \in DOMAIN active_ips
     THEN /\ active_ips' = DictSet(active_ips, ip[c], active_ips[ip[c]] - 1)
          /\ rel' = [rel EXCEPT ![c] = @ + 1]
     ELSE UNCHANGED <<active_ips, rel>>
  /\ pc' = [pc EXCEPT ![c] = "done"]
  /\ inbuf' = [inbuf EXCEPT ![c] = << >>]
  /\ hdr' = [hdr EXCEPT ![c] = NoHdr]
  /\ req' = [req EXCEPT ![c] = NoReq]
  /\ exc' = [exc EXCEPT ![c] = << >>]
  /\ result' = [result EXCEPT ![c] = NoResult]
  /\ resp' = [resp EXCEPT ![c] = NoResp]
  /\ UNCHANGED <<nreads, ffmpegRuns, uploads, wire, sentResp, hbVars,
                 envVars, unitVars, closed, connUp, acq>>

\* lines 150-153: under the lock, decrement and delete at zero; a missing
\* key raises KeyError and ends the thread
Release(c) ==
  /\ server = "running"
  /\ pc[c] = "release"
  /\ IF ip[c] \in DOMAIN active_ips
     THEN /\ active_ips' =
               IF active_ips[ip[c]] - 1 = 0
               THEN DictDel(active_ips, ip[c])
               ELSE DictSet(active_ips, ip[c], active_ips[ip[c]] - 1)
          /\ rel' = [rel EXCEPT ![c] = @ + 1]
     ELSE UNCHANGED <<active_ips, rel>>
  /\ pc' = [pc EXCEPT ![c] = "done"]
  \* the thread ends: its locals are gone
  /\ inbuf' = [inbuf EXCEPT ![c] = << >>]
  /\ hdr' = [hdr EXCEPT ![c] = NoHdr]
  /\ req' = [req EXCEPT ![c] = NoReq]
  /\ exc' = [exc EXCEPT ![c] = << >>]
  /\ result' = [result EXCEPT ![c] = NoResult]
  /\ resp' = [resp EXCEPT ![c] = NoResp]
  /\ UNCHANGED <<nreads, ffmpegRuns, uploads, wire, sentResp, hbVars,
                 envVars, unitVars, closed, connUp, acq>>

(***************************************************************************)
(* send_progress: the heartbeat thread                                     *)
(***************************************************************************)
\* line 92: the loop test.  A thread that has delivered the lines that the
\* duration of the service leaves time for waits here for the handler.
HbCheck(c) ==
  /\ server = "running"
  /\ hb[c] = "check"
  /\ IF stop_event[c]
     THEN hb' = [hb EXCEPT ![c] = "exited"]
     ELSE /\ beats[c] < quota[c] \/ closed[c] \/ ~connUp[c]
          /\ hb' = [hb EXCEPT ![c] = "sleep"]
  /\ UNCHANGED <<recvVars, jobVars, sendVars, stop_event, beats, admVars,
                 envVars, unitVars, pc, exc, closed, connUp>>

\* a heartbeat loop that catches the failure of sendall inside the loop and
\* goes on
HbSendKeepsGoing(c) ==
  /\ server = "running"
  /\ hb[c] = "sleep"
  /\ IF closed[c]
     THEN /\ hb' = [hb EXCEPT ![c] = "check"]
          /\ UNCHANGED <<wire, beats, connUp>>
     ELSE \E up \in BOOLEAN :
            /\ SocketCall(c, up)
            /\ IF up
               THEN /\ wire' = [wire EXCEPT ![c] = @ \o PROGRESS_LINE]
                    /\ beats' = [beats EXCEPT ![c] = @ + 1]
               ELSE UNCHANGED <<wire, beats>>
            /\ hb' = [hb EXCEPT ![c] = "check"]
  /\ UNCHANGED <<recvVars, jobVars, resp, sentResp, stop_event, admVars,
                 envVars, unitVars, pc, exc, closed>>

\* lines 93-97: after the sleep, sendall of the progress line; on a closed
\* or reset connection it raises and the thread ends
HbSend(c) ==
  /\ server = "running"
  /\ hb[c] = "sleep"
  /\ IF closed[c]
     THEN /\ hb' = [hb EXCEPT ![c] = "exited"]
          /\ UNCHANGED <<wire, beats, connUp>>
     ELSE \E up \in BOOLEAN :
            /\ SocketCall(c, up)
            /\ IF up
               THEN /\ wire' = [wire EXCEPT ![c] = @ \o PROGRESS_LINE]
                    /\ beats' = [beats EXCEPT ![c] = @ + 1]
                    /\ hb' = [hb EXCEPT ![c] = "check"]
               ELSE /\ hb' = [hb EXCEPT ![c] = "exited"]
                    /\ UNCHANGED <<wire, beats>>
  /\ UNCHANGED <<recvVars, jobVars, resp, sentResp, stop_event, admVars,
                 envVars, unitVars, pc, exc, closed>>

(***************************************************************************)
(* recv_all followed call by call: the peer sends the bytes of rcv.peer    *)
(* and closes; each recv returns some of the bytes that have arrived.      *)
(***************************************************************************)
\* the variables of the server
serverVars ==
  <<server, active_ips, ip, inbuf, pc, hdr, req, exc, result, resp, wire,
    sentResp, closed, connUp, resets, quota, stop_event, hb, beats, nreads,
    ffmpegRuns, uploads, acq, rel>>

\* a server that no connection reaches
NoConnection ==
  InitWith({}, [c \in Conns |-> {BuildRequest(ReqCompress, Mp4, FileBytes)}],
           {}, {})

\* the byte strings of at most n bytes over the bytes of b
Strings(b, n) == UNION {[1..k -> b] : k \in 0..n}

\* a loop that returns after its first recv
RecvAllRecvOnce ==
  /\ rcv.pc = "loop"
  /\ Len(rcv.data) < rcv.length
  /\ \E k \in 1..Min(rcv.length - Len(rcv.data), Len(rcv.connection)) :
       rcv' = [rcv EXCEPT !.data = @ \o Take(rcv.connection, k),
                          !.connection = Drop(@, k),
                          !.recvs = @ + 1,
                          !.pc = "returned"]
  /\ UNCHANGED <<serverVars, enc, cli>>

\* lines 47-48 and 51: the loop test holds, recv returns between one byte
\* and length - len(data) bytes of those that have arrived, data += more
RecvAllRecv ==
  /\ rcv.pc = "loop"
  /\ Len(rcv.data) < rcv.length
  /\ \E k \in 1..Min(rcv.length - Len(rcv.data), Len(rcv.connection)) :
       rcv' = [rcv EXCEPT !.data = @ \o Take(rcv.connection, k),
                          !.connection = Drop(@, k),
                          !.recvs = @ + 1]
  /\ UNCHANGED <<serverVars, enc, cli>>

\* lines 47-50: the loop test holds and recv returns b'' because the peer
\* has closed: raise EOFError
RecvAllEOF ==
  /\ rcv.pc = "loop"
  /\ Len(rcv.data) < rcv.length
  /\ rcv.connection = << >>
  /\ rcv' = [rcv EXCEPT !.pc = "raised"]
  /\ UNCHANGED <<serverVars, enc, cli>>

\* lines 47 and 52: the loop test fails, return data
RecvAllReturn ==
  /\ rcv.pc = "loop"
  /\ ~(Len(rcv.data) < rcv.length)
  /\ rcv' = [rcv EXCEPT !.pc = "returned"]
  /\ UNCHANGED <<serverVars, enc, cli>>

\* recv_all(connection, length) is called on a connection whose peer sends
\* any byte string of the model and closes
InitRecvAll ==
  /\ NoConnection
  /\ \E bs \in Strings(StreamBytes, MaxLength + 1), n \in 0..MaxLength :
       rcv = [pc |-> "loop", peer |-> bs, connection |-> bs, length |-> n,
              data |-> << >>, recvs |-> 0]
  /\ enc = NoHeader
  /\ cli = NoUpload

NextRecvAll == RecvAllRecv \/ RecvAllEOF \/ RecvAllReturn

\* the thread that calls recv_all runs
SpecRecvAll ==
  InitRecvAll /\ [][NextRecvAll]_vars /\ WF_vars(NextRecvAll)

(***************************************************************************)
(* The header of one message, built on one side from three sizes and       *)
(* decoded on the other.  The body that follows the header is left out:    *)
(* the sizes go up to 2^40.                                                *)
(***************************************************************************)
\* sizes around the maxima and around the byte boundaries of the fields
JsonSizes == {0, 1, 128, MAX_JSON_SIZE, MAX_JSON_SIZE + 1, 256, 513}

MediaTypeSizes == {0, 3, MAX_MEDIA_TYPE_SIZE, MAX_MEDIA_TYPE_SIZE + 1}

PayloadSizes ==
  {Wide(0), Wide(1), Wide(255), Wide(256), Wide(65536 + 2),
   Wide(1048575), Wide(1048576), Wide(16777216 * 3 + 5),
   [hi |-> 4096, lo |-> 0],              \* 2^32
   [hi |-> 74565, lo |-> 424080],        \* 0x1234567890
   [hi |-> 1048575, lo |-> 1048575],     \* 2^40 - 1
   [hi |-> 1048576, lo |-> 0],           \* 2^40
   [hi |-> 1048576, lo |-> 1]}           \* 2^40 + 1

\* client.py send_request: the checks, the header and sendall (53-68, 80)
SendRequest ==
  /\ enc.pc = "build"
  /\ enc.side = "client"
  /\ LET h == RequestHeader(enc.json_size, enc.media_type_size,
                            enc.payload_size)
     IN  enc' = [enc EXCEPT !.error = h.error, !.header = h.header,
                            !.sent = h.header,
                            !.pc = IF h.error = "none" THEN "sent"
                                   ELSE "failed"]
  /\ UNCHANGED <<serverVars, rcv, cli>>

\* server.py send_response: the check, the header, the marker and the
\* header written (68-80); every exception is caught and logged (83-84)
SendResponse ==
  /\ enc.pc = "build"
  /\ enc.side = "server"
  /\ LET h == ResponseHeader(enc.json_size, enc.media_type_size,
                             enc.payload_size)
     IN  enc' = [enc EXCEPT !.error = h.error, !.header = h.header,
                            !.sent = IF h.error = "none"
                                     THEN FINAL_MARKER \o h.header
                                     ELSE << >>,
                            !.pc = IF h.error = "none" THEN "sent"
                                   ELSE "failed"]
  /\ UNCHANGED <<serverVars, rcv, cli>>

\* the other side decodes the 8 bytes: server.py handle_client 121-123 for
\* a request, client.py receive_response 92-94 for a response
Decode ==
  /\ enc.pc = "sent"
  /\ LET d == DecodeHeader(enc.header)
     IN  enc' = [enc EXCEPT !.got =
                   [json_size |-> d.json_size,
                    media_type_size |-> d.media_type_size,
                    payload_size |-> from_bytes5(d.payload_size)],
                 !.pc = "decoded"]
  /\ UNCHANGED <<serverVars, rcv, cli>>

\* one side is about to build the header of a message with any of the
\* sizes above
InitHeader ==
  /\ NoConnection
  /\ rcv = NoCall
  /\ cli = NoUpload
  /\ \E side \in {"client", "server"}, j \in JsonSizes,
        m \in MediaTypeSizes, p \in PayloadSizes :
       enc = [NoHeader EXCEPT !.pc = "build", !.side = side,
                              !.json_size = j, !.media_type_size = m,
                              !.payload_size = p]

NextHeader == SendRequest \/ SendResponse \/ Decode

SpecHeader == InitHeader /\ [][NextHeader]_vars

(***************************************************************************)
(* client.py upload_file: one invocation of the client                     *)
(***************************************************************************)
\* b'ftyp'
Ftyp == <<102, 116, 121, 112>>

\* is_mp4 (lines 26-33): bytes 4..7 of the first 12 are 'ftyp'
is_mp4(bytes) ==
  LET header == Take(bytes, Min(12, Len(bytes)))
  IN  Len(header) >= 8 /\ SubSeq(header, 5, 8) = Ftyp

\* the checks of lines 105-120
ChecksPass(file) ==
  /\ file.isfile
  /\ file.mp4name
  /\ is_mp4(file.bytes)
  /\ ~WideGT(file.filesize, [hi |-> 4096, lo |-> 0])

\* the files upload_file is called on
ClientFiles ==
  {File(TRUE, TRUE, <<0, 0, 0, 24>> \o Ftyp, Wide(8)),
   File(TRUE, TRUE, <<0, 0, 0, 24>> \o Ftyp \o <<1, 2, 3>>, Wide(11)),
   File(FALSE, TRUE, << >>, Wide(0)),
   File(TRUE, FALSE, <<0, 0, 0, 24>> \o Ftyp, Wide(8)),
   File(TRUE, TRUE, <<1, 2, 3, 4, 5, 6, 7, 8, 9>>, Wide(9)),
   File(TRUE, TRUE, <<0, 0, 0>>, Wide(3)),
   \* more than 4 GB: only its first bytes are kept
   File(TRUE, TRUE, <<0, 0, 0, 24>> \o Ftyp, [hi |-> 4096, lo |-> 1])}

\* json.dumps(json_args) with an aspect ratio of 200 characters: 257 bytes
ReqAspectLong ==
  Take(ReqAspect, Len(ReqAspect) - 6) \o Rep(49, 200) \o <<34, 125>>

\* json.dumps(json_args) of the invocations
ClientJsons == {ReqCompress, ReqResolution, ReqAspectLong}

\* a response as the protocol frames it: header, JSON, media type, payload
Framed(r) == r.header \o r.json \o r.media_type \o r.payload

\* what the server writes before it closes the connection
ServerStreams ==
  {<< >>,
   Framed(BuildResponse(StatusSuccess, MsgCompleted, Mp4, <<0, 1>>)),
   Framed(BuildResponse(StatusError, MsgUnsupported, << >>, << >>)),
   WholeResponse(BuildResponse(StatusSuccess, MsgCompleted, Mp4, <<0, 1>>))}

\* lines 161-162: json.loads of the response JSON and response.get('status')
ResponseStatus(json_response) ==
  IF json_response = << >> THEN "none"
  ELSE IF json_response = JsonDumps(StatusSuccess, MsgCompleted)
  THEN "success"
  ELSE IF json_response = JsonDumps(StatusError, MsgUnsupported)
  THEN "error"
  ELSE "JSONDecodeError"

\* sys.exit(1): the with statement closes the socket on the way
Exit == [cli EXCEPT !.pc = "exit", !.outcome = "exit"]

\* lines 105-133: the file checks, the media type, reading the payload
UploadChecks ==
  /\ cli.pc = "checks"
  /\ cli' = IF ChecksPass(cli.file)
            THEN [cli EXCEPT !.payload = cli.file.bytes, !.pc = "connect"]
            ELSE Exit
  /\ UNCHANGED <<serverVars, rcv, enc>>

\* lines 136-137: the socket and connect; socket.error ends in sys.exit(1)
UploadConnect ==
  /\ cli.pc = "connect"
  /\ \E ok \in BOOLEAN :
       cli' = IF ok
              THEN [cli EXCEPT !.connects = @ + 1, !.pc = "send_request"]
              ELSE Exit
  /\ UNCHANGED <<serverVars, rcv, enc>>

\* a send_request that sends the payload it is given
UploadSendRequestWithPayload ==
  /\ cli.pc = "send_request"
  /\ LET h == RequestHeader(Len(cli.json), Len(Mp4), Wide(Len(cli.payload)))
     IN  IF h.error # "none"
         THEN cli' = [cli EXCEPT !.pc = "done", !.outcome = "exception"]
         ELSE \E ok \in BOOLEAN :
                cli' = IF ok
                       THEN [cli EXCEPT !.out = @ \o h.header \o cli.json
                                                  \o Mp4 \o cli.payload,
                                        !.pc = "chunks"]
                       ELSE Exit
  /\ UNCHANGED <<serverVars, rcv, enc>>

\* line 141, send_request (53-80): the size checks raise ValueError, which
\* upload_file prints (174-175); else header + JSON + media type are sent
UploadSendRequest ==
  /\ cli.pc = "send_request"
  /\ LET h == RequestHeader(Len(cli.json), Len(Mp4), Wide(Len(cli.payload)))
     IN  IF h.error # "none"
         THEN cli' = [cli EXCEPT !.pc = "done", !.outcome = "exception"]
         ELSE \E ok \in BOOLEAN :
                cli' = IF ok
                       THEN [cli EXCEPT !.out = @ \o h.header \o cli.json
                                                  \o Mp4,
                                        !.pc = "chunks"]
                       ELSE Exit
  /\ UNCHANGED <<serverVars, rcv, enc>>

\* lines 149-155: read the next chunk of the file; at its end leave the
\* loop, else sendall
UploadSendChunk ==
  /\ cli.pc = "chunks"
  /\ LET data == SubSeq(cli.file.bytes, cli.offset + 1,
                        Min(cli.offset + ChunkSize, Len(cli.file.bytes)))
     IN  IF data = << >>
         THEN cli' = [cli EXCEPT !.pc = "receive"]
         ELSE \E ok \in BOOLEAN :
                cli' = IF ok
                       THEN [cli EXCEPT !.out = @ \o data,
                                        !.offset = @ + Len(data)]
                       ELSE Exit
  /\ UNCHANGED <<serverVars, rcv, enc>>

\* lines 160-169: receive_response, then the outcome; EOFError and the
\* decoding errors are printed (174-175), socket.error ends in sys.exit(1)
UploadReceive ==
  /\ cli.pc = "receive"
  /\ \E ok \in BOOLEAN :
       LET r == receive_response(cli.incoming)
           status == ResponseStatus(r.json_data)
       IN  cli' =
             IF ~ok THEN [Exit EXCEPT !.responses = @ + 1]
             ELSE IF ~r.ok \/ status = "JSONDecodeError"
             THEN [cli EXCEPT !.responses = @ + 1, !.pc = "done",
                              !.outcome = "exception"]
             ELSE IF status = "success"
             THEN [cli EXCEPT !.responses = @ + 1, !.pc = "done",
                              !.outcome = "saved", !.saved = r.payload]
             ELSE [cli EXCEPT !.responses = @ + 1, !.pc = "done",
                              !.outcome = "server error"]
  /\ UNCHANGED <<serverVars, rcv, enc>>

\* upload_file is called on a file of the model, with an operation of the
\* model, against a server that answers with one of the streams above
InitClient ==
  /\ NoConnection
  /\ rcv = NoCall
  /\ enc = NoHeader
  /\ \E f \in ClientFiles, j \in ClientJsons, i \in ServerStreams :
       cli = [NoUpload EXCEPT !.pc = "checks", !.file = f, !.json = j,
                              !.incoming = i]

NextClient ==
  \/ UploadChecks \/ UploadConnect \/ UploadSendRequest \/ UploadSendChunk
  \/ UploadReceive

SpecClient == InitClient /\ [][NextClient]_vars

(***************************************************************************)
(* Specifications                                                          *)
(***************************************************************************)
Next ==
  \/ Interrupt
  \/ \E c \in Conns : Accept(c)
  \/ \E c \in Conns : Admit(c)
  \/ \E c \in Conns : Reject(c)
  \/ \E c \in Conns : RecvHeader(c)
  \/ \E c \in Conns : RecvBody(c)
  \/ \E c \in Conns : Process(c)
  \/ \E c \in Conns : Join(c)
  \/ \E c \in Conns : Respond(c)
  \/ \E c \in Conns : Except(c)
  \/ \E c \in Conns : SendHeader(c)
  \/ \E c \in Conns : SendBody(c)
  \/ \E c \in Conns : Close(c)
  \/ \E c \in Conns : Release(c)
  \/ \E c \in Conns : HbCheck(c)
  \/ \E c \in Conns : HbSend(c)

\* concurrency: MaxConns connections, two kinds of request, short jobs
Spec == Init /\ [][Next]_vars

\* requests: two connections, every request of the model
SpecRequests == InitRequests /\ [][Next]_vars

\* the requests of the runs that are about the heartbeat thread: a job
\* that returns, jobs that raise, a request that ends before its payload
HeartbeatRequests ==
  {BuildRequest(ReqCompress, Mp4, FileBytes),
   BuildRequest(ReqRotate, Mp4, FileBytes),
   BuildRequest(ReqAspectNone, Mp4, FileBytes),
   Take(BuildRequest(ReqCompress, Mp4, FileBytes), 5)}

\* two connections arrive; the first is served for long, may be reset and
\* sends one of the requests above
InitHeartbeat ==
  /\ InitWith({1, 2},
              [c \in Conns |-> IF c = 1 THEN HeartbeatRequests
                               ELSE {BuildRequest(ReqCompress, Mp4,
                                                  FileBytes)}],
              {1}, {1})
  /\ rcv = NoCall
  /\ enc = NoHeader
  /\ cli = NoUpload

\* the handler thread and the heartbeat thread of the first connection
\* are scheduled
SpecHeartbeat ==
  /\ InitHeartbeat /\ [][Next]_vars
  /\ WF_vars(Admit(1) \/ Reject(1) \/ RecvHeader(1) \/ RecvBody(1)
               \/ Process(1) \/ Join(1) \/ Respond(1) \/ Except(1)
               \/ SendHeader(1) \/ SendBody(1) \/ Close(1) \/ Release(1))
  /\ WF_vars(HbCheck(1) \/ HbSend(1))

TypeOK ==
  /\ server \in {"running", "exited"}
  /\ DOMAIN active_ips \subseteq IPs
  /\ \A c \in Conns : pc[c] \in {"absent", "pending", "killed", "admission",
       "recv_header", "recv_body", "process", "join", "respond", "except",
       "send_header", "send_body", "finally", "release", "done"}
  /\ \A c \in Conns : hb[c] \in {"unstarted", "check", "sleep", "exited",
                                  "killed"}

(***************************************************************************)
(* Properties                                                              *)
(***************************************************************************)
\* the handler of c is between its acquisition and its release
Holds(c) ==
  pc[c] \in {"recv_header", "recv_body", "process", "join", "respond",
             "except", "send_header", "send_body", "finally", "release"}

\* the response of the rejection path
Rejection ==
  [status |-> StatusError, message |-> MsgOnlyOne, media_type |-> << >>,
   payload |-> << >>]

\* C1: in every reachable state the counter active_ips[ip] of every address
\* is at most 1, and at most one handler per address is between a
\* successful acquisition and its release.
C1_AtMostOnePerAddress ==
  /\ \A a \in DOMAIN active_ips : active_ips[a] <= 1
  /\ \A a \in IPs :
       Cardinality({c \in Conns : Holds(c) /\ ip[c] = a}) <= 1

\* two handlers of two addresses hold their slots at the same time
C1_Witness ==
  \E c, d \in Conns :
    /\ Holds(c) /\ Holds(d) /\ ip[c] # ip[d]
    /\ active_ips[ip[c]] = 1 /\ active_ips[ip[d]] = 1

\* C2: a handler that acquired the slot of its address releases it exactly
\* once before it ends, on every exit path: it never decrements more often
\* than it incremented, it has decremented when it is done, and the counter
\* of an address is the number of handlers that acquired and have not
\* released.
C2_ReleasedExactlyOnce ==
  /\ \A c \in Conns :
       /\ acq[c] <= 1
       /\ rel[c] <= acq[c]
       /\ pc[c] = "done" => rel[c] = acq[c]
  /\ \A a \in IPs :
       DictGet(active_ips, a, 0) =
         Cardinality({c \in Conns :
                        ip[c] = a /\ acq[c] = 1 /\ rel[c] = 0})

\* a handler whose transcoder ran and whose peer reset the connection has
\* ended and released
C2_Witness ==
  /\ pc[1] = "done" /\ acq[1] = 1 /\ rel[1] = 1
  /\ ffmpegRuns[1] = 1 /\ ~connUp[1] /\ sentResp[1] = << >>

\* the handler of c leaves the admission step
Decides(c) ==
  pc[c] = "admission" /\ pc'[c] # "admission" /\ server' = "running"

\* another handler of the address of c is admitted and has not released
Busy(c) == \E d \in Conns \ {c} : ip[d] = ip[c] /\ Holds(d)

\* C3: a connection that arrives while an earlier one of the same address
\* is admitted and not released is rejected with the error response
\* "Only one processing per IP is allowed."; when no handler of the address
\* holds the slot (the earlier one has released), it is admitted.
C3_RejectedWhileBusyAdmittedAfter ==
  [][\A c \in Conns :
       Decides(c) =>
         IF Busy(c)
         THEN /\ pc'[c] = "done"
              /\ acq'[c] = 0
              /\ connUp'[c] => sentResp'[c] = <<Rejection>>
         ELSE /\ pc'[c] = "recv_header"
              /\ acq'[c] = 1
              /\ sentResp'[c] = << >>]_vars

\* a second handler of an address was admitted after the first released
C3_Witness ==
  \E c, d \in Conns :
    /\ c # d /\ ip[c] = ip[d]
    /\ pc[c] = "done" /\ rel[c] = 1
    /\ acq[d] = 1 /\ Holds(d)

\* a step of the handler thread of c
HandlerStep(c) ==
  \/ Admit(c) \/ Reject(c) \/ RecvHeader(c) \/ RecvBody(c) \/ Process(c)
  \/ Join(c) \/ Respond(c) \/ Except(c) \/ SendHeader(c) \/ SendBody(c)
  \/ Close(c) \/ Release(c)

\* the threads of connection 2 are scheduled (each handler and each
\* heartbeat is a thread of its own, start_server and handle_client), and
\* its client has sent what it sends; the threads of every other connection
\* may stall anywhere, for ever
SpecStalled ==
  Spec /\ WF_vars(HandlerStep(2)) /\ WF_vars(HbCheck(2) \/ HbSend(2))

\* C4: handlers of distinct addresses do not reject or block one another:
\* a handler at admission whose address no other connection uses is, for
\* every timing of the other handlers and wherever they stall, admitted and
\* carried to completion with its one response written and its slot
\* released (unless the server process is interrupted meanwhile).
C4_DistinctAddressesIndependent ==
  (pc[2] = "admission" /\ \A d \in Conns \ {2} : ip[d] # ip[2])
    ~> (server = "exited"
         \/ (pc[2] = "done" /\ acq[2] = 1 /\ rel[2] = 1
               /\ Len(sentResp[2]) = 1))

\* a handler has been admitted and has answered with success while the
\* handler of another address has not yet received its header
C4_Witness ==
  \E c \in Conns \ {2} :
    /\ ip[c] # ip[2]
    /\ pc[c] = "recv_header"
    /\ pc[2] = "done" /\ acq[2] = 1 /\ rel[2] = 1
    /\ Len(sentResp[2]) = 1
    /\ sentResp[2][1].status = StatusSuccess

\* C5: when admission fails the handler sends the rejection and closes, the
\* dict is exactly as it was, no request byte is read, the transcoder is
\* not invoked and nothing is released: the thread ends there.
C5_RejectionLeavesAdmissionAlone ==
  [][\A c \in Conns :
       (Decides(c) /\ DictGet(active_ips, ip[c], 0) >= 1) =>
         /\ pc'[c] = "done"
         /\ closed'[c]
         /\ active_ips' = active_ips
         /\ acq' = acq /\ rel' = rel
         /\ nreads'[c] = << >>
         /\ ffmpegRuns'[c] = 0
         /\ connUp'[c] => sentResp'[c] = <<Rejection>>]_vars

\* a rejected connection is closed while the slot of its address is still
\* held by the earlier handler
C5_Witness ==
  \E c, d \in Conns :
    /\ c # d /\ ip[c] = ip[d]
    /\ pc[c] = "done" /\ acq[c] = 0 /\ closed[c]
    /\ sentResp[c] = <<Rejection>>
    /\ Holds(d) /\ active_ips[ip[c]] = 1

\* the lengths of the body reads respect the protocol maxima
WithinMaxima(field, length) ==
  /\ field = "json" => length <= MAX_JSON_SIZE
  /\ field = "media_type" => length <= MAX_MEDIA_TYPE_SIZE
  /\ field = "payload" => ~DigitsGT(<<0>> \o length, MAX_PAYLOAD_SIZE)

\* C6: the sizes a header declares are compared with the maxima before any
\* body byte is read: the server never calls recv_all for a body segment
\* with a length above its maximum, and neither does the client when it
\* parses what the server wrote.
C6_SizesValidatedBeforeBody ==
  \A c \in Conns :
    /\ \A i \in DOMAIN nreads[c] :
         WithinMaxima(nreads[c][i].field, nreads[c][i].length)
    /\ (server = "running" /\ closed[c]) =>
         LET asked == receive_response(wire[c]).asked
         IN  /\ Len(asked) >= 2 => asked[2] <= MAX_JSON_SIZE
             /\ Len(asked) >= 3 => asked[3] <= MAX_MEDIA_TYPE_SIZE

\* one message of the protocol
Message(r) ==
  EncodeHeader(Len(JsonDumps(r.status, r.message)), Len(r.media_type),
               Len(r.payload))
    \o JsonDumps(r.status, r.message) \o r.media_type \o r.payload

\* C7: the bytes the server writes on a connection are exactly one
\* message, header then JSON then media type then payload, and the client's
\* receive_response decodes from them the triple given to send_response.
C7_WireIsOneMessage ==
  \A c \in Conns :
    (server = "running" /\ closed[c] /\ Len(sentResp[c]) = 1) =>
      LET r == sentResp[c][1]
          m == receive_response(wire[c])
      IN  /\ wire[c] = Message(r)
          /\ m.ok
          /\ m.json_data = JsonDumps(r.status, r.message)
          /\ m.media_type = r.media_type
          /\ m.payload = r.payload
          /\ m.rest = << >>

\* C8: an admitted handler whose peer is still connected ends having
\* written exactly one response, with status "error" after a failure and
\* "success" after the transcoder succeeded.
C8_ExactlyOneResponse ==
  \A c \in Conns :
    /\ Len(sentResp[c]) <= 1
    /\ (server = "running" /\ pc[c] = "done" /\ acq[c] = 1 /\ connUp[c]) =>
         /\ Len(sentResp[c]) = 1
         /\ sentResp[c][1].status \in {StatusSuccess, StatusError}
         /\ sentResp[c][1].status = StatusSuccess =>
               (ffmpegRuns[c] = 1 /\ uploads[c] = {"output"})

\* the handler of c has caught an exception whose error response is over a
\* size maximum, and its send_response has returned
OverLimitAnswered(c) ==
  /\ server = "running"
  /\ pc[c] \in {"finally", "release"}
  /\ exc[c] # << >>
  /\ ~BuildResponse(StatusError, exc[c], << >>, << >>).ok

\* C9: when the response would exceed a size maximum the server still
\* sends a well-formed response within the maxima: no over-limit message is
\* sent, and the connection is not closed without a response.
C9_OverLimitStillAnswered ==
  \A c \in Conns :
    /\ \A i \in DOMAIN sentResp[c] :
         /\ Len(JsonDumps(sentResp[c][i].status, sentResp[c][i].message))
              <= MAX_JSON_SIZE
         /\ Len(sentResp[c][i].media_type) <= MAX_MEDIA_TYPE_SIZE
    /\ (OverLimitAnswered(c) /\ connUp[c]) => Len(sentResp[c]) = 1

\* the request of c names an operation and lacks a parameter it requires
MissingParameter(c) ==
  req[c].json_data \in {ReqResolutionNoHeight, ReqAspectNone,
                        ReqGifNoDuration, ReqWebmNoStart}

\* C10: a request that lacks a required parameter of its operation never
\* reaches the transcoder, and its handler goes on to answer: when its
\* send_response has returned and the peer is connected, one response with
\* status "error" has been written, and the handler is not left waiting.
C10_MissingParameterRejected ==
  \A c \in Conns :
    MissingParameter(c) =>
      /\ ffmpegRuns[c] = 0
      /\ pc[c] \in {"process", "join", "respond", "except", "send_header",
                     "send_body", "finally", "release"}
      /\ (pc[c] \in {"finally", "release"} /\ connUp[c]) =>
            /\ Len(sentResp[c]) = 1
            /\ sentResp[c][1].status = StatusError
            /\ sentResp[c][1].media_type = << >>
            /\ sentResp[c][1].payload = << >>

\* the change_aspect_ratio request without aspect_ratio has been answered
\* with an error and the transcoder did not run
C10_Witness ==
  /\ req[1].json_data = ReqAspectNone
  /\ pc[1] = "release"
  /\ ffmpegRuns[1] = 0
  /\ Len(sentResp[1]) = 1
  /\ sentResp[1][1].status = StatusError

\* the request of c names an operation that is none of the six
Unsupported(c) == req[c].json_data = ReqRotate

\* the error response of the except clause for the unsupported operation
UnsupportedAnswer ==
  [status |-> StatusError, message |-> MsgUnsupported, media_type |-> << >>,
   payload |-> << >>]

\* C11: a request whose operation is none of the six supported ones never
\* reaches the transcoder, and once the handler's send_response has
\* returned on a connection still up, the one response written is status
\* "error", message "Unsupported operation.", with empty media type and
\* empty payload.
C11_UnsupportedOperationAnswered ==
  \A c \in Conns :
    Unsupported(c) =>
      /\ ffmpegRuns[c] = 0
      /\ uploads[c] = {}
      /\ pc[c] \in {"process", "except", "send_header", "send_body",
                     "finally", "release"}
      /\ (pc[c] \in {"finally", "release"} /\ connUp[c]) =>
            sentResp[c] = <<UnsupportedAnswer>>

\* the request {"operation": "rotate"} has been answered
C11_Witness ==
  /\ req[1].json_data = ReqRotate
  /\ pc[1] = "release"
  /\ connUp[1]
  /\ ffmpegRuns[1] = 0
  /\ sentResp[1] = <<UnsupportedAnswer>>
  /\ JsonDumps(sentResp[1][1].status, sentResp[1][1].message)
       = JsonOpenStatus \o StatusError \o JsonMidMessage \o MsgUnsupported
           \o JsonClose

\* C12: once process_request has ended, by returning or by raising, no
\* temporary file of the job exists: neither the input file nor the output
\* file.
C12_NoScratchFileRemains ==
  \A c \in Conns : uploads[c] = {}

\* C13: recv_all returns only with exactly length bytes, the first length
\* bytes the peer sent, in order, however the stream splits them into
\* partial reads; it raises EOFError exactly when the peer closed before
\* length bytes (length > 0), never returning a short buffer; and it ends,
\* returning or raising, on every stream that delivers length bytes or
\* closes.
C13_RecvAllExact ==
  /\ [](rcv.pc = "returned" =>
          /\ Len(rcv.data) = rcv.length
          /\ rcv.data = Take(rcv.peer, rcv.length)
          /\ rcv.connection = Drop(rcv.peer, rcv.length))
  /\ [](rcv.pc = "raised" =>
          /\ rcv.length > 0
          /\ Len(rcv.peer) < rcv.length)
  /\ <>(rcv.pc \in {"returned", "raised"})

\* three bytes were asked for and came in three reads of one byte
C13_Witness ==
  /\ rcv.pc = "returned"
  /\ rcv.length = 3
  /\ rcv.recvs = 3
  /\ rcv.data = <<1, 2, 1>>
  /\ rcv.connection # << >>

\* the three sizes of the header that is followed
Triple ==
  [json_size |-> enc.json_size, media_type_size |-> enc.media_type_size,
   payload_size |-> enc.payload_size]

\* the sizes are within the protocol maxima: 216, 4 and 2^40 - 1
WithinProtocolMaxima ==
  /\ enc.json_size <= MAX_JSON_SIZE
  /\ enc.media_type_size <= MAX_MEDIA_TYPE_SIZE
  /\ ~WideGT(enc.payload_size, [hi |-> 1048575, lo |-> 1048575])

\* C14: for sizes within the protocol maxima the header is built, it is 8
\* bytes, and decoding these 8 bytes gives back the three sizes, for the
\* header of a request (client builds, server decodes) and of a response
\* (server builds, client decodes).
C14_HeaderRoundTrip ==
  /\ (enc.pc \in {"sent", "decoded"}) => Len(enc.header) = HEADER_SIZE
  /\ (WithinProtocolMaxima /\ enc.pc \notin {"none", "build"}) =>
        enc.pc \in {"sent", "decoded"}
  /\ enc.pc = "decoded" => enc.got = Triple

\* the response header for 216, 4 and 0x1234567890 has been decoded
C14_Witness ==
  /\ enc.pc = "decoded"
  /\ enc.side = "server"
  /\ enc.got = [json_size |-> 216, media_type_size |-> 4,
                payload_size |-> [hi |-> 74565, lo |-> 424080]]
  /\ enc.header = <<0, 216, 4, 18, 52, 86, 120, 144>>

C16_HandlersFinishAfterInterrupt ==
  \A c \in Conns : pc[c] # "killed" /\ hb[c] # "killed"

\* C16 as the code has it: the interrupt ends the accept loop and the
\* process with it; no connection is accepted afterwards and nothing runs
\* any more; the handler and heartbeat threads in flight are daemon threads
\* and end where they stand, sending no response and releasing no slot,
\* and the connections not yet accepted stay so.
C16_InterruptEndsDaemonThreads ==
  [][/\ server = "running"
     /\ server' = "exited" =>
          /\ \A c \in Conns :
               /\ pc'[c] = IF c \in Live THEN "killed" ELSE pc[c]
               /\ hb[c] \in {"check", "sleep"} => hb'[c] = "killed"
               /\ Len(sentResp'[c]) <= Len(sentResp[c])
               /\ rel'[c] <= rel[c]]_vars

\* the server was interrupted while a handler was waiting for its heartbeat
\* thread and another connection had not been accepted
C16_Witness ==
  /\ server = "exited"
  /\ \E c, d \in Conns :
       pc[c] = "killed" /\ hb[c] = "killed" /\ pc[d] = "pending"

\* C17: the dict holds an entry for an address exactly while a handler of
\* that address is between its acquisition and its release; an entry is
\* never 0 or negative, and with no handler in flight the dict is empty.
C17_EntryExactlyWhileHeld ==
  /\ \A a \in IPs :
       /\ a \in DOMAIN active_ips <=>
            \E c \in Conns : ip[c] = a /\ Holds(c)
       /\ a \in DOMAIN active_ips => active_ips[a] >= 1
  /\ (\A c \in Conns : ~Holds(c)) => active_ips = EmptyDict

\* every connection has been served, two of them for the same address one
\* after the other, and the dict is empty again
C17_Witness ==
  /\ server = "running"
  /\ active_ips = EmptyDict
  /\ \A c \in Conns : pc[c] \in {"done", "absent"}
  /\ \E c, d \in Conns :
       c # d /\ ip[c] = ip[d] /\ acq[c] = 1 /\ rel[c] = 1
             /\ acq[d] = 1 /\ rel[d] = 1

\* the handler of c has started writing its final response, or is past it
Responding(c) ==
  pc[c] \in {"send_header", "send_body", "finally", "release", "done"}

\* C19: the heartbeat thread writes no line on a connection once the
\* handler has started writing the final response on it, on every path of
\* handle_client: no response is interleaved with or followed by heartbeat
\* bytes.
C19_NoHeartbeatOnceResponding ==
  [][\A c \in Conns :
       (server' = "running" /\ Responding(c) /\ pc'[c] = pc[c])
         => wire'[c] = wire[c]]_vars

\* the full request of c has been received
RequestReceived(c) ==
  /\ pc[c] \notin {"absent", "pending", "admission", "recv_header",
                    "recv_body"}
  /\ \E i \in DOMAIN nreads[c] : nreads[c][i].field = "payload"

\* C20: a heartbeat thread is started only after the full request has been
\* received and is joined only if it was started; and every heartbeat
\* thread that was started ends, also when process_request failed and the
\* stop event was never set (or the process exits).
C20_HeartbeatThreadEnds ==
  /\ [](\A c \in Conns :
          /\ hb[c] \in {"check", "sleep", "exited"} => RequestReceived(c)
          /\ pc[c] = "join" => hb[c] # "unstarted")
  /\ (hb[1] \in {"check", "sleep"})
       ~> (hb[1] = "exited" \/ server = "exited")

\* process_request failed, the stop event was never set, the handler has
\* finished and the heartbeat thread has ended
C20_Witness ==
  /\ server = "running"
  /\ pc[1] = "done"
  /\ ffmpegRuns[1] = 1
  /\ ~stop_event[1]
  /\ hb[1] = "exited"
  /\ beats[1] = 1

\* s is a prefix of t
IsPrefix(s, t) == Len(s) <= Len(t) /\ s = Take(t, Len(s))

\* the one request of the invocation: header, JSON, media type and the
\* bytes of the file
TheRequest == BuildRequest(cli.json, Mp4, cli.file.bytes)

\* C18: one invocation of upload_file opens at most one connection, and
\* only after the file checks passed; what it writes is a prefix of one
\* request: the header, the JSON, the media type, then the payload bytes,
\* payload_size of them at the end; it reads a response at most once and
\* only after the whole request is written; an invocation that ends with a
\* response has done exactly one such cycle.
C18_OneRequestResponseCycle ==
  /\ cli.connects <= 1
  /\ cli.connects = 1 => ChecksPass(cli.file)
  /\ IsPrefix(cli.out, TheRequest)
  /\ cli.out # << >> => cli.connects = 1
  /\ cli.pc = "receive" => cli.out = TheRequest
  /\ cli.responses <= 1
  /\ cli.responses = 1 => cli.out = TheRequest
  /\ cli.outcome \in {"saved", "server error"} =>
        cli.connects = 1 /\ cli.responses = 1 /\ cli.pc = "done"

\* the file of 11 bytes went out in three chunks after the header, the
\* JSON and the media type, and the payload of the response was saved
C18_Witness ==
  /\ cli.pc = "done"
  /\ cli.outcome = "saved"
  /\ cli.saved = <<0, 1>>
  /\ cli.offset = 11
  /\ cli.connects = 1 /\ cli.responses = 1
  /\ Len(cli.out) = HEADER_SIZE + Len(cli.json) + 3 + 11
====
